---- MODULE Spec2Model ----
(***************************************************************************)
(* Model of src/handlers.py: the /health handler (health_check) and the    *)
(* /proxy/{path} handler (proxy_worker) of the webapp plugin router.       *)
(*                                                                         *)
(* URLs, paths and header names are sequences of one-character strings so  *)
(* that rstrip, lstrip and lower are computed character by character.      *)
(* Header values, bodies and messages are TLA+ strings.                    *)
(***************************************************************************)
EXTENDS Integers, Sequences, FiniteSets, TLC

VARIABLES WORKER_URL, req

vars == <<WORKER_URL, req>>

(***************************************************************************)
(* Bounds of the model.                                                    *)
(***************************************************************************)
MaxReqs  == 2   \* concurrent requests in Spec
MaxSlash == 2   \* extra slashes put around the base URL and the path
MaxHdrs  == 3   \* headers of a request / of a Worker reply

(***************************************************************************)
(* str methods.                                                            *)
(***************************************************************************)
UpperLetters == <<"A","B","C","D","E","F","G","H","I","J","K","L","M",
                  "N","O","P","Q","R","S","T","U","V","W","X","Y","Z">>
LowerLetters == <<"a","b","c","d","e","f","g","h","i","j","k","l","m",
                  "n","o","p","q","r","s","t","u","v","w","x","y","z">>

LowerChar(c) ==
    IF \E i \in 1..Len(UpperLetters) : UpperLetters[i] = c
    THEN LowerLetters[CHOOSE i \in 1..Len(UpperLetters) : UpperLetters[i] = c]
    ELSE c

\* key.lower()
Lower(s) == [i \in 1..Len(s) |-> LowerChar(s[i])]

RECURSIVE rstrip(_, _)
\* s.rstrip(c): every trailing c is removed
rstrip(s, c) ==
    IF s # <<>> /\ s[Len(s)] = c THEN rstrip(SubSeq(s, 1, Len(s) - 1), c) ELSE s

RECURSIVE lstrip(_, _)
\* s.lstrip(c): every leading c is removed
lstrip(s, c) ==
    IF s # <<>> /\ s[1] = c THEN lstrip(Tail(s), c) ELSE s

RECURSIVE Slashes(_)
Slashes(n) == IF n = 0 THEN <<>> ELSE <<"/">> \o Slashes(n - 1)

(***************************************************************************)
(* config.WORKER_URL: None or a str.                                       *)
(***************************************************************************)
None   == [none |-> TRUE,  str |-> <<>>]
Str(s) == [none |-> FALSE, str |-> s]

\* bool(config.WORKER_URL)
Truthy(v) == ~v.none /\ v.str # <<>>

\* config.WORKER_URL or ""
OrEmpty(v) == IF Truthy(v) THEN v.str ELSE <<>>

\* f"{config.WORKER_URL.rstrip('/')}/api/health"
HealthUrl(s) == rstrip(s, "/") \o <<"/","a","p","i","/","h","e","a","l","t","h">>

\* the join without the strips
JoinUrl_NoStrip(base, path) == base \o <<"/">> \o path

\* f"{config.WORKER_URL.rstrip('/')}/{path.lstrip('/')}"
JoinUrl(base, path) == rstrip(base, "/") \o <<"/">> \o lstrip(path, "/")

(***************************************************************************)
(* Headers.  A header list is a sequence of <<name, value>> pairs, in the  *)
(* order of the wire; a dict is such a sequence with pairwise distinct     *)
(* names, in insertion order.                                              *)
(***************************************************************************)
host              == <<"h","o","s","t">>
connection        == <<"c","o","n","n","e","c","t","i","o","n">>
content_length    == <<"c","o","n","t","e","n","t","-","l","e","n","g","t","h">>
accept_encoding   == <<"a","c","c","e","p","t","-","e","n","c","o","d","i","n","g">>
content_encoding  == <<"c","o","n","t","e","n","t","-","e","n","c","o","d","i","n","g">>
transfer_encoding == <<"t","r","a","n","s","f","e","r","-","e","n","c","o","d","i","n","g">>

\* the set literal of lines 98-103
RequestExcluded == {host, connection, content_length, accept_encoding}

\* the set literal of lines 121-126
ResponseExcluded == {content_encoding, content_length, transfer_encoding, connection}

HasKey(d, k) == \E i \in 1..Len(d) : d[i][1] = k

\* d[k] = v of a Python dict: a present key keeps its place and takes the
\* new value, a new key goes to the end
DictSet(d, k, v) ==
    IF HasKey(d, k)
    THEN [i \in 1..Len(d) |-> IF d[i][1] = k THEN <<k, v>> ELSE d[i]]
    ELSE Append(d, <<k, v>>)

RECURSIVE DictOf(_, _)
\* {key: value for key, value in items}, items taken in order
DictOf(items, acc) ==
    IF items = <<>> THEN acc
    ELSE DictOf(Tail(items), DictSet(acc, items[1][1], items[1][2]))

\* ... if key.lower() not in excluded
KeepItems(items, excluded) ==
    SelectSeq(items, LAMBDA kv : Lower(kv[1]) \notin excluded)

\* the filter without key.lower()
RequestHeaders_NoLower(items) ==
    DictOf(SelectSeq(items, LAMBDA kv : kv[1] \notin RequestExcluded), <<>>)

\* lines 94-104: request.headers.items() yields every raw pair in order
RequestHeaders(items) == DictOf(KeepItems(items, RequestExcluded), <<>>)

\* the value of key k in dict d
DictGet(d, k) == d[CHOOSE i \in 1..Len(d) : d[i][1] = k][2]

RECURSIVE HttpxItems(_, _)
\* response.headers.items() of httpx.Headers: names are lower-cased and the
\* values of a name that occurs several times are joined with ", "
HttpxItems(raw, acc) ==
    IF raw = <<>> THEN acc
    ELSE LET k == Lower(raw[1][1])
             v == raw[1][2]
         IN  HttpxItems(Tail(raw),
                        IF HasKey(acc, k)
                        THEN DictSet(acc, k, DictGet(acc, k) \o ", " \o v)
                        ELSE Append(acc, <<k, v>>))

\* lines 117-127
ResponseHeaders(raw) == DictOf(KeepItems(HttpxItems(raw, <<>>), ResponseExcluded), <<>>)

(***************************************************************************)
(* Exceptions.  The classes of httpx the except clauses name, with their   *)
(* base classes; Exception is the root.                                    *)
(***************************************************************************)
Base(cls) ==
    CASE cls = "ReadTimeout"         -> "TimeoutException"
      [] cls = "ConnectTimeout"      -> "TimeoutException"
      [] cls = "TimeoutException"    -> "TransportError"
      [] cls = "ConnectError"        -> "TransportError"
      [] cls = "RemoteProtocolError" -> "TransportError"
      [] cls = "TransportError"      -> "HTTPError"
      [] cls = "HTTPStatusError"     -> "HTTPError"
      [] cls = "HTTPError"           -> "Exception"
      [] cls = "JSONDecodeError"     -> "Exception"
      [] cls = "AttributeError"      -> "Exception"
      [] cls = "ClientDisconnect"    -> "Exception"
      [] OTHER                       -> "Exception"

RECURSIVE IsInstance(_, _)
IsInstance(cls, base) ==
    \/ cls = base
    \/ cls # "Exception" /\ IsInstance(Base(cls), base)

NoHeaders == <<>>

Exc(cls, msg) == [cls |-> cls, msg |-> msg, status_code |-> 0, text |-> ""]

\* the ladder with except httpx.HTTPError ahead of except httpx.TimeoutException
ProxyExcept_HTTPErrorFirst(e) ==
    IF IsInstance(e.cls, "HTTPError")
    THEN [kind |-> "HTTPException", status_code |-> 502,
          content |-> "Worker request failed: " \o e.msg, headers |-> NoHeaders]
    ELSE [kind |-> "HTTPException", status_code |-> 500,
          content |-> "proxy request error: " \o e.msg, headers |-> NoHeaders]

\* the except ladder of proxy_worker, lines 136-159: the first clause whose
\* class the exception is an instance of decides the HTTPException raised
ProxyExcept(e) ==
    IF IsInstance(e.cls, "TimeoutException")
    THEN [kind |-> "HTTPException", status_code |-> 504,
          content |-> "Worker request timed out: " \o e.msg, headers |-> NoHeaders]
    ELSE IF IsInstance(e.cls, "HTTPStatusError")
    THEN [kind |-> "HTTPException", status_code |-> e.status_code,
          content |-> "Worker returned an error: " \o e.text, headers |-> NoHeaders]
    ELSE IF IsInstance(e.cls, "HTTPError")
    THEN [kind |-> "HTTPException", status_code |-> 502,
          content |-> "Worker request failed: " \o e.msg, headers |-> NoHeaders]
    ELSE [kind |-> "HTTPException", status_code |-> 500,
          content |-> "proxy request error: " \o e.msg, headers |-> NoHeaders]

\* lines 130-134
ProxyResponse(reply) ==
    [kind |-> "Response", status_code |-> reply.status_code,
     content |-> reply.content, headers |-> ResponseHeaders(reply.headers)]

\* the raise of line 81 moved inside the try statement, where except Exception
\* catches it
NotConfigured_InsideTry == ProxyExcept(Exc("HTTPException", "400"))

\* lines 81-84
NotConfigured ==
    [kind |-> "HTTPException", status_code |-> 400,
     content |-> "WORKER_URL is not configured", headers |-> NoHeaders]

(***************************************************************************)
(* response.json() on the bodies the model's Worker sends.                 *)
(***************************************************************************)
Json(body) ==
    CASE body = "{\"initialized\": true}"  -> [ok |-> TRUE, dict |-> TRUE, has |-> TRUE, val |-> TRUE]
      [] body = "{\"initialized\": false}" -> [ok |-> TRUE, dict |-> TRUE, has |-> TRUE, val |-> FALSE]
      [] body = "{}"   -> [ok |-> TRUE,  dict |-> TRUE,  has |-> FALSE, val |-> FALSE]
      [] body = "[]"   -> [ok |-> TRUE,  dict |-> FALSE, has |-> FALSE, val |-> FALSE]
      [] OTHER         -> [ok |-> FALSE, dict |-> FALSE, has |-> FALSE, val |-> FALSE]

(***************************************************************************)
(* What the Worker, or the transport, hands back to an awaited call.       *)
(***************************************************************************)
NoExc == Exc("", "")

Reply(status, headers, content) ==
    [kind |-> "response", status_code |-> status, headers |-> headers,
     content |-> content, exc |-> NoExc]

Raised(e) ==
    [kind |-> "exception", status_code |-> 0, headers |-> NoHeaders,
     content |-> "", exc |-> e]

NoReply ==
    [kind |-> "none", status_code |-> 0, headers |-> NoHeaders,
     content |-> "", exc |-> NoExc]

(***************************************************************************)
(* health_check: the result dict.  A key that is not in the dict has its   *)
(* has_ flag FALSE; worker_status "" stands for a dict without that key.   *)
(***************************************************************************)
\* lines 36-40
NewResult(cfg38, cfg39) ==
    [status |-> "ok",
     worker_configured |-> Truthy(cfg38),
     worker_url |-> OrEmpty(cfg39),
     worker_status |-> "",
     has_initialized |-> FALSE, worker_initialized |-> FALSE,
     has_error |-> FALSE, worker_error |-> ""]

\* worker_data.get("initialized", True)
Initialized_DefaultTrue(worker_data) == IF worker_data.has THEN worker_data.val ELSE TRUE

\* line 52: worker_data.get("initialized", False)
Initialized(worker_data) == IF worker_data.has THEN worker_data.val ELSE FALSE

\* lines 56-59: except Exception as e
HealthExcept(result, e) ==
    [result EXCEPT !.worker_status = "error",
                   !.has_error = TRUE, !.worker_error = e.msg]

\* lines 49-59, for what the awaited client.get handed back
HealthResult(result, got) ==
    IF got.kind = "exception" THEN HealthExcept(result, got.exc)
    ELSE IF got.status_code = 200
    THEN LET worker_data == Json(got.content)
             healthy == [result EXCEPT !.worker_status = "healthy"]
         IN  IF ~worker_data.ok
             THEN HealthExcept(result,
                      Exc("JSONDecodeError", "Expecting value: line 1 column 1 (char 0)"))
             ELSE IF ~worker_data.dict
             THEN HealthExcept(healthy,
                      Exc("AttributeError", "'list' object has no attribute 'get'"))
             ELSE [healthy EXCEPT !.has_initialized = TRUE,
                                  !.worker_initialized = Initialized(worker_data)]
    ELSE [result EXCEPT !.worker_status = "error",
                        !.has_error = TRUE,
                        !.worker_error = "HTTP " \o ToString(got.status_code)]

\* line 61
HealthNotConfigured(result) == [result EXCEPT !.worker_status = "not_configured"]

(***************************************************************************)
(* The state of one inbound request.                                       *)
(***************************************************************************)
NoOutcome == [kind |-> "none", status_code |-> 0, content |-> "", headers |-> NoHeaders]

\* line 63: the dict is the body of a 200 response
Report == [kind |-> "report", status_code |-> 200, content |-> "", headers |-> NoHeaders]

NoCall == [method |-> "", url |-> <<>>, headers |-> NoHeaders,
           has_content |-> FALSE, content |-> "", params |-> ""]

Idle ==
    [kind |-> "idle", pc |-> "idle",
     method |-> "", path |-> <<>>, headers |-> NoHeaders, query |-> "", body |-> "",
     result |-> NewResult(None, None),
     worker_url |-> <<>>, out_headers |-> NoHeaders,
     sent |-> NoCall, calls |-> 0,
     got |-> NoReply, outcome |-> NoOutcome,
     cfg_tested |-> None, cfg_reported |-> None,
     cfg_prefix |-> None, prefix_read |-> FALSE]

Init0(configs) ==
    /\ WORKER_URL \in configs
    /\ req = [r \in 1..MaxReqs |-> Idle]

(***************************************************************************)
(* The configuration object is the plugin's; an operator may save a new    *)
(* value at any time the event loop runs something else.                   *)
(***************************************************************************)
SetConfig(configs) ==
    /\ \E v \in configs : v # WORKER_URL /\ WORKER_URL' = v
    /\ UNCHANGED req

(***************************************************************************)
(* GET /health                                                             *)
(***************************************************************************)
\* lines 36-43, up to the first await (entering the client context)
HealthStart(r) ==
    /\ req[r].pc = "idle"
    /\ LET result == NewResult(WORKER_URL, WORKER_URL)
           base == [req[r] EXCEPT !.kind = "health",
                                  !.cfg_tested = WORKER_URL,
                                  !.cfg_reported = WORKER_URL]
       IN  IF Truthy(WORKER_URL)
           THEN req' = [req EXCEPT ![r] = [base EXCEPT !.pc = "h_enter",
                                                       !.result = result]]
           ELSE req' = [req EXCEPT ![r] = [base EXCEPT !.pc = "done",
                                                       !.result = HealthNotConfigured(result),
                                                       !.outcome = Report]]
    /\ UNCHANGED WORKER_URL

\* lines 45-48: the context is entered, the f-string reads config.WORKER_URL
\* again and the GET is issued.  None has no rstrip (AttributeError), and a
\* URL without scheme is refused by the client before anything is sent; both
\* land in except Exception.
HealthProbe(r) ==
    /\ req[r].pc = "h_enter"
    /\ LET cur == [req[r] EXCEPT !.cfg_prefix = WORKER_URL, !.prefix_read = TRUE]
       IN  IF WORKER_URL.none
           THEN req' = [req EXCEPT ![r] =
                    [cur EXCEPT !.pc = "done", !.outcome = Report,
                                !.result = HealthExcept(cur.result,
                                    Exc("AttributeError",
                                        "'NoneType' object has no attribute 'rstrip'"))]]
           ELSE IF WORKER_URL.str = <<>>
           THEN req' = [req EXCEPT ![r] =
                    [cur EXCEPT !.pc = "done", !.outcome = Report,
                                !.result = HealthExcept(cur.result,
                                    Exc("UnsupportedProtocol",
                                        "Request URL is missing an 'http://' or 'https://' protocol."))]]
           ELSE req' = [req EXCEPT ![r] =
                    [cur EXCEPT !.pc = "h_await",
                                !.worker_url = HealthUrl(WORKER_URL.str),
                                !.sent = [NoCall EXCEPT !.method = "GET",
                                                        !.url = HealthUrl(WORKER_URL.str)],
                                !.calls = @ + 1]]
    /\ UNCHANGED WORKER_URL

\* a handler that issues its call again after a failed attempt
AfterReply_Retry(kind, got) ==
    IF got.kind = "exception"
    THEN (IF kind = "health" THEN "h_enter" ELSE "p_send")
    ELSE "done"

\* Where a handler goes once its awaited call has returned or raised: no loop
\* encloses the call (lines 44-59, 89-159), so the request ends.
AfterReply(kind, got) == "done"

\* lines 49-63: the awaited GET returns or raises
HealthReply(r, probes) ==
    /\ req[r].pc = "h_await"
    /\ \E got \in probes :
          req' = [req EXCEPT ![r] =
                    [@ EXCEPT !.pc = AfterReply("health", got),
                              !.got = got, !.outcome = Report,
                              !.result = HealthResult(req[r].result, got)]]
    /\ UNCHANGED WORKER_URL

(***************************************************************************)
(* {GET,POST,PUT,DELETE,OPTIONS} /proxy/{path:path}                        *)
(***************************************************************************)
\* line 67
Methods == {"GET", "POST", "PUT", "DELETE", "OPTIONS"}

\* lines 80-87, up to the first await (request.body()).  The HTTPException
\* of line 81 is raised outside the try statement.
ProxyStart(r, methods, paths, headerLists, queries, bodies) ==
    /\ req[r].pc = "idle"
    /\ \E m \in methods, p \in paths, h \in headerLists, q \in queries, b \in bodies :
          LET base == [req[r] EXCEPT !.kind = "proxy", !.method = m, !.path = p,
                                     !.headers = h, !.query = q, !.body = b,
                                     !.cfg_tested = WORKER_URL]
          IN  IF ~Truthy(WORKER_URL)
              THEN req' = [req EXCEPT ![r] =
                       [base EXCEPT !.pc = "done", !.outcome = NotConfigured]]
              ELSE req' = [req EXCEPT ![r] =
                       [base EXCEPT !.pc = "p_body",
                                    !.cfg_prefix = WORKER_URL, !.prefix_read = TRUE,
                                    !.worker_url = JoinUrl(WORKER_URL.str, p)]]
    /\ UNCHANGED WORKER_URL

\* lines 91-104: the body has been read and the outbound headers are built;
\* the next await is entering the client context
ProxyBody(r) ==
    /\ req[r].pc = "p_body"
    /\ req' = [req EXCEPT ![r] =
                 [@ EXCEPT !.pc = "p_send",
                           !.out_headers = RequestHeaders(req[r].headers)]]
    /\ UNCHANGED WORKER_URL

\* line 91 raises (the inbound client went away): except Exception, line 154
ProxyBodyFails(r) ==
    /\ req[r].pc = "p_body"
    /\ req' = [req EXCEPT ![r] =
                 [@ EXCEPT !.pc = "done",
                           !.outcome = ProxyExcept(Exc("ClientDisconnect", ""))]]
    /\ UNCHANGED WORKER_URL

\* lines 107-114: the one client.request of the handler
ProxySend(r) ==
    /\ req[r].pc = "p_send"
    /\ req' = [req EXCEPT ![r] =
                 [@ EXCEPT !.pc = "p_await",
                           !.sent = [method |-> req[r].method,
                                     url |-> req[r].worker_url,
                                     headers |-> req[r].out_headers,
                                     has_content |-> req[r].body # "",
                                     content |-> req[r].body,
                                     params |-> req[r].query],
                           !.calls = @ + 1]]
    /\ UNCHANGED WORKER_URL

\* the handler with response.raise_for_status() after line 114
ProxyOutcome_RaiseForStatus(got) ==
    IF got.kind = "response"
    THEN IF got.status_code >= 400
         THEN ProxyExcept([cls |-> "HTTPStatusError", msg |-> "",
                           status_code |-> got.status_code, text |-> got.content])
         ELSE ProxyResponse(got)
    ELSE ProxyExcept(got.exc)

\* what the handler does with what the awaited client.request handed back:
\* lines 116-134 for a response of any status, lines 136-159 for an exception
ProxyOutcome(got) ==
    IF got.kind = "response" THEN ProxyResponse(got) ELSE ProxyExcept(got.exc)

ProxyReply(r, replies) ==
    /\ req[r].pc = "p_await"
    /\ \E got \in replies :
          req' = [req EXCEPT ![r] =
                    [@ EXCEPT !.pc = AfterReply("proxy", got), !.got = got,
                              !.outcome = ProxyOutcome(got)]]
    /\ UNCHANGED WORKER_URL

(***************************************************************************)
(* Inputs.                                                                 *)
(***************************************************************************)
BaseW == <<"h","t","t","p",":","/","/","w",":","9">>
BaseV == <<"h","t","t","p",":","/","/","v",":","9">>
AdminKeys == <<"a","d","m","i","n","/","k","e","y","s">>

\* "http://w:9" followed by up to MaxSlash slashes
Bases == {BaseW \o Slashes(j) : j \in 0..MaxSlash}

\* "admin/keys" between up to MaxSlash slashes on either side
Paths == {Slashes(k) \o AdminKeys \o Slashes(l) : k \in 0..MaxSlash, l \in 0..MaxSlash}

Unset == {None, Str(<<>>)}

X_Custom   == <<"X","-","C","u","s","t","o","m">>
X_Host     == <<"X","-","H","o","s","t">>
Set_Cookie == <<"S","e","t","-","C","o","o","k","i","e">>

RequestPairs ==
    { <<<<"H","o","s","t">>, "x">>,
      <<<<"C","o","n","n","e","c","t","i","o","n">>, "y">>,
      <<X_Custom, "z">>,
      <<X_Custom, "x">>,
      <<X_Host, "x">>,
      <<<<"C","O","N","T","E","N","T","-","L","E","N","G","T","H">>, "y">>,
      <<accept_encoding, "x">>,
      <<content_encoding, "y">> }

ResponsePairs ==
    { <<<<"C","o","n","t","e","n","t","-","E","n","c","o","d","i","n","g">>, "x">>,
      <<content_length, "y">>,
      <<<<"T","R","A","N","S","F","E","R","-","E","N","C","O","D","I","N","G">>, "x">>,
      <<<<"C","o","n","n","e","c","t","i","o","n">>, "y">>,
      <<Set_Cookie, "x">>,
      <<Set_Cookie, "y">>,
      <<host, "x">>,
      <<<<"x","-","c","o","n","n","e","c","t","i","o","n">>, "z">> }

HeaderLists(pairs) == UNION {[1..n -> pairs] : n \in 0..MaxHdrs}

FewHeaders == { <<>>, << <<<<"H","o","s","t">>, "x">>, <<X_Custom, "z">> >> }

\* what client.request / client.get can raise: httpx raises HTTPStatusError
\* only from Response.raise_for_status(), which no handler calls
Failures ==
    { Raised(Exc("ReadTimeout", "")),
      Raised(Exc("ConnectTimeout", "timed out")),
      Raised(Exc("ConnectError", "All connection attempts failed")),
      Raised(Exc("RemoteProtocolError", "Server disconnected without sending a response.")),
      Raised(Exc("InvalidURL", "Invalid non-printable ASCII character in URL")) }

Statuses == {200, 404, 500, 503}

Replies(headerLists, bodies) ==
    {Reply(s, h, b) : s \in Statuses, h \in headerLists, b \in bodies} \cup Failures

Probes ==
    {Reply(200, NoHeaders, b) :
        b \in {"{\"initialized\": true}", "{\"initialized\": false}", "{}", "[]", "busy", ""}}
    \cup {Reply(s, NoHeaders, "busy") : s \in Statuses \ {200}}
    \cup Failures

(***************************************************************************)
(* Specifications.                                                         *)
(***************************************************************************)
Step(R, configs, methods, paths, headerLists, queries, bodies, replies, probes) ==
    \/ SetConfig(configs)
    \/ \E r \in R :
          \/ HealthStart(r)
          \/ HealthProbe(r)
          \/ HealthReply(r, probes)
          \/ ProxyStart(r, methods, paths, headerLists, queries, bodies)
          \/ ProxyBody(r)
          \/ ProxyBodyFails(r)
          \/ ProxySend(r)
          \/ ProxyReply(r, replies)

ProxyConfigs == Unset \cup {Str(b) : b \in Bases}

\* concurrent requests, few inputs
ConcConfigs == Unset \cup {Str(BaseW), Str(BaseV)}
Init == Init0(ConcConfigs)
Next ==
    Step(1..MaxReqs, ConcConfigs, {"POST"}, {AdminKeys}, {<<>>}, {"a=1"}, {"busy"},
         {Reply(503, NoHeaders, "busy"), Raised(Exc("ReadTimeout", ""))},
         {Reply(200, NoHeaders, "{\"initialized\": true}"),
          Reply(503, NoHeaders, "busy"),
          Raised(Exc("ConnectError", "All connection attempts failed"))})
Spec == Init /\ [][Next]_vars

\* one health request, every outcome of the probe
InitHealth == Init0(ProxyConfigs)
NextHealth ==
    Step({1}, ProxyConfigs, {"GET"}, {AdminKeys}, {<<>>}, {""}, {""},
         {Reply(200, NoHeaders, "ok")}, Probes)
SpecHealth == InitHealth /\ [][NextHealth]_vars

\* one proxy request, every method, base URL, path and body
InitProxy == Init0(ProxyConfigs)
NextProxy ==
    Step({1}, ProxyConfigs, Methods, Paths, {<<>>}, {""}, {"", "busy"},
         Replies({NoHeaders}, {"", "busy"}), Probes)
SpecProxy == InitProxy /\ [][NextProxy]_vars

\* one proxy request, every list of inbound headers
OneConfig == {None, Str(BaseW)}
InitReqHdr == Init0(OneConfig)
NextReqHdr ==
    Step({1}, OneConfig, {"POST"}, {AdminKeys}, HeaderLists(RequestPairs), {""}, {"busy"},
         {Reply(200, NoHeaders, "ok"), Raised(Exc("ReadTimeout", ""))},
         {Reply(200, NoHeaders, "{}")})
SpecReqHdr == InitReqHdr /\ [][NextReqHdr]_vars

\* one proxy request, every list of headers in the Worker's reply
InitRespHdr == Init0(OneConfig)
NextRespHdr ==
    Step({1}, OneConfig, {"GET"}, {AdminKeys}, {<<>>}, {""}, {""},
         Replies(HeaderLists(ResponsePairs), {"busy"}),
         {Reply(200, NoHeaders, "{}")})
SpecRespHdr == InitRespHdr /\ [][NextRespHdr]_vars

(***************************************************************************)
(* Properties.                                                             *)
(***************************************************************************)
Slots == 1..MaxReqs

IsProxy(r)  == req[r].kind = "proxy"
IsHealth(r) == req[r].kind = "health"
Ended(r)    == req[r].pc = "done"

TimeoutClasses   == {"ReadTimeout", "ConnectTimeout"}
TransportClasses == {"ConnectError", "RemoteProtocolError"}

\* C1: a proxy request that finds the Worker URL unset or empty ends at once
\* with an HTTPException of status 400, whatever its method, path and body;
\* the status is never 500, 502 or 504.
C1_UnsetIs400 ==
    \A r \in Slots :
        IsProxy(r) /\ ~Truthy(req[r].cfg_tested)
        => /\ Ended(r)
           /\ req[r].outcome.kind = "HTTPException"
           /\ req[r].outcome.status_code = 400
           /\ req[r].calls = 0

C1_Witness ==
    \E r \in Slots :
        /\ IsProxy(r) /\ Ended(r)
        /\ req[r].cfg_tested = Str(<<>>)
        /\ req[r].method = "DELETE" /\ req[r].body = "busy"
        /\ req[r].path = <<"/">> \o AdminKeys
        /\ req[r].outcome.status_code = 400

\* C2: when the Worker answers a proxy call with a non-2xx status s and a
\* body b, the handler's outcome is a Response with exactly status s and
\* body b.
C2_ErrorStatusPassthrough ==
    \A r \in Slots :
        IsProxy(r) /\ Ended(r) /\ req[r].got.kind = "response"
                   /\ req[r].got.status_code \notin 200..299
        => /\ req[r].outcome.kind = "Response"
           /\ req[r].outcome.status_code = req[r].got.status_code
           /\ req[r].outcome.content = req[r].got.content

C2_Witness ==
    \E r \in Slots :
        /\ IsProxy(r) /\ Ended(r)
        /\ req[r].got.kind = "response"
        /\ req[r].got.status_code = 503 /\ req[r].got.content = "busy"
        /\ req[r].outcome.kind = "Response"
        /\ req[r].outcome.status_code = 503 /\ req[r].outcome.content = "busy"

\* C3: a proxy call that times out ends with status 504, and one that fails
\* with another transport failure ends with status 502.
C3_TimeoutIs504TransportIs502 ==
    \A r \in Slots :
        IsProxy(r) /\ Ended(r) /\ req[r].got.kind = "exception"
        => /\ req[r].got.exc.cls \in TimeoutClasses
              => req[r].outcome.kind = "HTTPException" /\ req[r].outcome.status_code = 504
           /\ req[r].got.exc.cls \in TransportClasses
              => req[r].outcome.kind = "HTTPException" /\ req[r].outcome.status_code = 502

C3_Witness ==
    \E r \in Slots :
        /\ IsProxy(r) /\ Ended(r)
        /\ req[r].got.kind = "exception"
        /\ req[r].got.exc.cls = "ReadTimeout"
        /\ req[r].outcome.status_code = 504

\* C6 as stated: for "http://w:9" and "admin/keys" with any slashes added at
\* either end of either one, the target is exactly "http://w:9/admin/keys".
C6_AnySlashesSameTarget ==
    \A r \in Slots :
        IsProxy(r) /\ req[r].prefix_read
                   /\ req[r].cfg_prefix.str \in Bases /\ req[r].path \in Paths
        => req[r].worker_url = BaseW \o <<"/">> \o AdminKeys

\* C6 amended: every trailing slash of the base URL and every leading slash
\* of the path is dropped and one slash joins the two; the trailing slashes
\* of the path are kept as they are.
C6_JoinOneSlash ==
    \A r \in Slots :
        \A j \in 0..MaxSlash, k \in 0..MaxSlash, l \in 0..MaxSlash :
            /\ IsProxy(r) /\ req[r].prefix_read
            /\ req[r].cfg_prefix.str = BaseW \o Slashes(j)
            /\ req[r].path = Slashes(k) \o AdminKeys \o Slashes(l)
            => req[r].worker_url = BaseW \o <<"/">> \o AdminKeys \o Slashes(l)

C6_Witness ==
    \E r \in Slots :
        /\ IsProxy(r) /\ req[r].prefix_read
        /\ req[r].cfg_prefix.str = BaseW \o <<"/", "/">>
        /\ req[r].path = <<"/", "/">> \o AdminKeys \o <<"/">>
        /\ req[r].worker_url = BaseW \o <<"/">> \o AdminKeys \o <<"/">>

\* C4: check_health always returns its report, and when the probe timed out
\* or failed at transport level the report has worker_status "error" and a
\* worker_error that is not the empty string.
C4_ProbeFailureHasMessage ==
    \A r \in Slots :
        IsHealth(r) /\ Ended(r)
        => /\ req[r].outcome.kind = "report"
           /\ req[r].got.kind = "exception"
                 /\ req[r].got.exc.cls \in TimeoutClasses \cup TransportClasses
              => /\ req[r].result.worker_status = "error"
                 /\ req[r].result.has_error
                 /\ req[r].result.worker_error # ""

\* C5 as stated: a probe answered with HTTP 200 gives worker_status
\* "healthy" and worker_initialized equal to the body's initialized field,
\* or false when the field is absent or the body is no mapping.
C5_Status200IsHealthy ==
    \A r \in Slots :
        IsHealth(r) /\ Ended(r) /\ req[r].got.kind = "response"
                    /\ req[r].got.status_code = 200
        => /\ req[r].result.worker_status = "healthy"
           /\ req[r].result.has_initialized
           /\ req[r].result.worker_initialized = (req[r].got.content = "{\"initialized\": true}")

\* C5 amended: a 200 whose body is a JSON mapping gives "healthy" with
\* worker_initialized the field's value, false when the field is absent; a
\* 200 whose body is not a JSON mapping gives worker_status "error" with a
\* worker_error and no worker_initialized key.
C5_Status200MappingIsHealthy ==
    \A r \in Slots :
        IsHealth(r) /\ Ended(r) /\ req[r].got.kind = "response"
                    /\ req[r].got.status_code = 200
        => IF req[r].got.content \in {"{\"initialized\": true}", "{\"initialized\": false}", "{}"}
           THEN /\ req[r].result.worker_status = "healthy"
                /\ ~req[r].result.has_error
                /\ req[r].result.has_initialized
                /\ req[r].result.worker_initialized = (req[r].got.content = "{\"initialized\": true}")
           ELSE /\ req[r].result.worker_status = "error"
                /\ req[r].result.has_error
                /\ ~req[r].result.has_initialized

C5_Witness ==
    \E r \in Slots :
        /\ IsHealth(r) /\ Ended(r)
        /\ req[r].got.kind = "response" /\ req[r].got.status_code = 200
        /\ req[r].got.content = "busy"
        /\ req[r].result.worker_status = "error"

\* the values, in order, of the headers of hs whose name is n in lower case
ValuesOf(hs, n) ==
    LET sel == SelectSeq(hs, LAMBDA kv : Lower(kv[1]) = n)
    IN  [i \in 1..Len(sel) |-> sel[i][2]]

NamesOf(hs) == {Lower(hs[i][1]) : i \in 1..Len(hs)}

StrippedFromResponse ==
    { <<"c","o","n","t","e","n","t","-","e","n","c","o","d","i","n","g">>,
      <<"c","o","n","t","e","n","t","-","l","e","n","g","t","h">>,
      <<"t","r","a","n","s","f","e","r","-","e","n","c","o","d","i","n","g">>,
      <<"c","o","n","n","e","c","t","i","o","n">> }

StrippedFromRequest ==
    { <<"h","o","s","t">>,
      <<"c","o","n","n","e","c","t","i","o","n">>,
      <<"c","o","n","t","e","n","t","-","l","e","n","g","t","h">>,
      <<"a","c","c","e","p","t","-","e","n","c","o","d","i","n","g">> }

\* C7: the forwarded response has none of the four stripped headers, and
\* every other header name of the Worker's reply occurs in it as many times,
\* with the same values in the same order (names compared without case).
C7_ResponseHeadersKept ==
    \A r \in Slots :
        IsProxy(r) /\ Ended(r) /\ req[r].got.kind = "response"
        => \A n \in NamesOf(req[r].got.headers) \cup NamesOf(req[r].outcome.headers) :
              ValuesOf(req[r].outcome.headers, n)
                 = IF n \in StrippedFromResponse THEN <<>>
                   ELSE ValuesOf(req[r].got.headers, n)

DistinctNames(hs) ==
    \A i, j \in 1..Len(hs) : i # j => Lower(hs[i][1]) # Lower(hs[j][1])

\* C8: for inbound headers with pairwise distinct names, the outbound headers
\* are the inbound ones, in order and with their values, without those whose
\* name is host, connection, content-length or accept-encoding in any case.
C8_RequestHeadersFiltered ==
    \A r \in Slots :
        IsProxy(r) /\ req[r].calls = 1 /\ DistinctNames(req[r].headers)
        => req[r].sent.headers =
              SelectSeq(req[r].headers, LAMBDA kv : Lower(kv[1]) \notin StrippedFromRequest)

C8_Witness ==
    \E r \in Slots :
        /\ IsProxy(r) /\ req[r].calls = 1
        /\ req[r].headers = << <<<<"H","o","s","t">>, "x">>,
                               <<<<"C","o","n","n","e","c","t","i","o","n">>, "y">>,
                               <<X_Custom, "z">> >>
        /\ req[r].sent.headers = << <<X_Custom, "z">> >>

\* C9: a request makes at most one outbound call and ends as soon as that
\* call has returned or raised; a request that finds the Worker URL unset or
\* empty makes none, and its health report says not configured.
C9_AtMostOneCall ==
    \A r \in Slots :
        /\ req[r].calls <= 1
        /\ req[r].got.kind # "none" => Ended(r)
        /\ req[r].kind # "idle" /\ ~Truthy(req[r].cfg_tested)
           => /\ req[r].calls = 0 /\ Ended(r)
              /\ IsHealth(r) => /\ ~req[r].result.worker_configured
                                /\ req[r].result.worker_status = "not_configured"

C9_Witness ==
    \E r, q \in Slots :
        /\ IsProxy(r) /\ Ended(r) /\ req[r].calls = 1
        /\ req[r].got.kind = "exception"
        /\ IsHealth(q) /\ Ended(q) /\ req[q].calls = 0
        /\ req[q].result.worker_status = "not_configured"

\* C10: within one request the value tested to decide "configured", the
\* value reported as worker_url and the value used as prefix of the outbound
\* URL are the same value.
C10_OneConfigValuePerRequest ==
    \A r \in Slots :
        req[r].prefix_read
        => /\ req[r].cfg_prefix = req[r].cfg_tested
           /\ IsHealth(r) => req[r].cfg_reported = req[r].cfg_tested

====
